---- MODULE Spec2Model ----
(***************************************************************************)
(* Model of main.cpp (ideal gas): the fixed-timestep main loop, update()   *)
(* (integration with wall reflection, then the pairwise collision pass)    *)
(* and render().                                                           *)
(*                                                                         *)
(* fptype (double) is modelled as a signed decimal fixed-point number:     *)
(* the integer n stands for n / FpScale, every product and quotient is     *)
(* rounded to the nearest unit (sign-symmetric, as IEEE rounding is) and   *)
(* results saturate at +-FpMax (as a double saturates at +-inf).  The      *)
(* constant smooth = .0001 is exactly one unit.                            *)
(* std::complex<fptype> is a record [re, im].                              *)
(* Durations are integer counts of the clock's period; ClockPerMs periods  *)
(* make one millisecond.                                                   *)
(***************************************************************************)
EXTENDS Integers, Sequences, FiniteSets, TLC

\* ---------------------------------------------------------------- bounds
\* number of bodies (num_things is 600 in the program)
NumBodies == 2
\* the clock is stopped once MaxTicks update steps of time have passed
MaxTicks == 3
\* clock periods per millisecond (high_resolution_clock counts finer than ms)
ClockPerMs == 2

\* ------------------------------------------------- fptype as fixed point
FpScale == 10000
FpMax == 1000000000

Fp(n) == n * FpScale

Abs(x) == IF x < 0 THEN -x ELSE x

Sgn(x) == IF x < 0 THEN -1 ELSE IF x > 0 THEN 1 ELSE 0

FpSat(x) == IF x > FpMax THEN FpMax ELSE IF x < -FpMax THEN -FpMax ELSE x

FpAdd(a, b) == FpSat(a + b)

FpSub(a, b) == FpSat(a - b)

\* |a| * |b| / FpScale for a, b >= 0, rounded to nearest, saturating; the
\* product is formed from the integer and fractional parts so that no
\* intermediate value leaves the 32-bit range
FpMulMag(a, b) ==
  LET a1 == a \div FpScale
      a0 == a % FpScale
      b1 == b \div FpScale
      b0 == b % FpScale
  IN IF a1 > 0 /\ b1 > (FpMax \div FpScale) \div a1
     THEN FpMax
     ELSE FpSat(FpSat(FpSat(a1 * b1 * FpScale + a1 * b0) + a0 * b1)
                + (a0 * b0 + FpScale \div 2) \div FpScale)

FpMul(a, b) == Sgn(a) * Sgn(b) * FpMulMag(Abs(a), Abs(b))

\* <<quotient, remainder>> of r * m by b, for 0 <= r < b, by doubling, so
\* that no intermediate value leaves the 32-bit range
RECURSIVE MulDiv(_, _, _)
MulDiv(r, m, b) ==
  IF m = 0 THEN <<0, 0>>
  ELSE LET h == MulDiv(r, m \div 2, b)
           q1 == 2 * h[1] + (IF 2 * h[2] >= b THEN 1 ELSE 0)
           r1 == IF 2 * h[2] >= b THEN 2 * h[2] - b ELSE 2 * h[2]
           r2 == IF m % 2 = 1 THEN r1 + r ELSE r1
       IN IF r2 >= b THEN <<q1 + 1, r2 - b>> ELSE <<q1, r2>>

\* a / b for a >= 0, b > 0, rounded to nearest, saturating
FpDivMag(a, b) ==
  IF a \div b >= FpMax \div FpScale
  THEN FpMax
  ELSE LET f == MulDiv(a % b, FpScale, b)
       IN FpSat((a \div b) * FpScale + f[1]
                + (IF 2 * f[2] >= b THEN 1 ELSE 0))

FpDiv(a, b) == Sgn(a) * Sgn(b) * FpDivMag(Abs(a), Abs(b))

\* static_cast<int>(fptype): truncation toward zero
FpToInt(a) == Sgn(a) * (Abs(a) \div FpScale)

\* ---------------------------------------------------- std::complex<fptype>
Vec(x, y) == [re |-> x, im |-> y]

VAdd(a, b) == Vec(FpAdd(a.re, b.re), FpAdd(a.im, b.im))

VSub(a, b) == Vec(FpSub(a.re, b.re), FpSub(a.im, b.im))

\* complex * real, real * complex
VScale(a, s) == Vec(FpMul(a.re, s), FpMul(a.im, s))

\* complex / real
VDivS(a, s) == Vec(FpDiv(a.re, s), FpDiv(a.im, s))

conj(a) == Vec(a.re, -a.im)

\* (a * b).real()
VMulRe(a, b) == FpSub(FpMul(a.re, b.re), FpMul(a.im, b.im))

\* std::norm: the SQUARED magnitude re^2 + im^2
norm(a) == FpAdd(FpMul(a.re, a.re), FpMul(a.im, a.im))

\* ---------------------------------------------------- program constants
radiusUnits == 5
radius == Fp(radiusUnits)

dampUnits == 1
damp == Fp(dampUnits)

world_width_px == 500
world_width == Fp(world_width_px)
world_height == world_width

update_step_ms == 16
\* update_step as a duration in clock periods
update_step == update_step_ms * ClockPerMs
\* static_cast<fptype>(update_step.count())
update_step_count == Fp(update_step_ms)

ColRadFactor == 3
col_rad == FpMul(Fp(ColRadFactor), radius)

SmoothInv == 10000
smooth == FpScale \div SmoothInv

MaxSpeedInv == 10
max_speed == FpScale \div MaxSpeedInv

Bodies == 0 .. (NumBodies - 1)

\* ---------------------------------------------------------------- helpers
\* mutant of clamp: the std::min against high is forgotten
clamp_no_upper(low, high, x) == IF low > x THEN low ELSE x

\* lines 33-35
clamp(low, high, x) ==
  LET m == IF high < x THEN high ELSE x
  IN IF low > m THEN low ELSE m

\* lines 37-40; both coordinates are clamped against world_height
in_bounds(x) ==
  Vec(clamp(radius, FpSub(world_height, radius), x.re),
      clamp(radius, FpSub(world_height, radius), x.im))

\* line 42
dot(x, y) == VMulRe(x, conj(y))

\* line 46: the comparison of is_collide, on the position difference d
CollideTest(d) == norm(d) <= col_rad

\* lines 45-47
is_collide(pos, i1, i2) == CollideTest(VSub(pos[i1], pos[i2]))

\* mutant of collide_vel: the projection takes the position difference where
\* the velocity difference belongs
collide_vel_posdiff(v1, v2, p1, p2) ==
  LET d == VSub(p1, p2)
      u == VDivS(d, FpAdd(norm(d), smooth))
  IN VSub(v1, VScale(d, dot(VSub(p1, p2), u)))

\* lines 60-65
collide_vel(v1, v2, p1, p2) ==
  LET d == VSub(p1, p2)
      u == VDivS(d, FpAdd(norm(d), smooth))
  IN VSub(v1, VScale(d, dot(VSub(v1, v2), u)))

\* lines 67-69
collide_pos(p1, p2) ==
  VSub(p1, VScale(VDivS(VSub(p1, p2), FpAdd(norm(VSub(p1, p2)), smooth)),
                  col_rad))

\* ------------------------------------------------------------------ state
VARIABLES
  position,      \* std::vector<vec> position
  velocity,      \* std::vector<vec> velocity
  last_time,     \* main: last_time
  this_time,     \* main_loop lambda: this_time (the clock reading of the frame)
  lag,           \* main: lag
  pc,            \* where the main loop is
  i,             \* update(): loop variable i
  j,             \* update(): loop variable j
  cancelled,     \* cancel_main_loop() has been called
  render_lag,    \* the lag argument of the last render() call, in ms
  drawn,         \* the rectangles' corners given to RenderCopy by the last render()
  sum_deltas,    \* history: the sum of elapsed_time over all frames
  ticks_started, \* history: number of update() calls begun
  ticks_run,     \* history: number of update() calls returned
  tested,        \* history: the (i, j) given to is_collide in this update(), in order
  resolved,      \* history: the (i, j) given to collide_update in this update(), in order
  last_integ,    \* history: <<body, position, velocity before>> of the loop-1 step just taken
  last_resolve   \* history: <<arguments and state before>> of the collide_update just returned

vars == <<position, velocity, last_time, this_time, lag, pc, i, j, cancelled,
          render_lag, drawn, sum_deltas, ticks_started, ticks_run, tested,
          resolved, last_integ, last_resolve>>

bodyVars == <<position, velocity>>
timeVars == <<last_time, this_time, lag>>

\* initial placements: a sample of rand_pos x rand_pos, which draws from
\* [radius, world_width - radius]
InitPos ==
  { Vec(radius, radius), Vec(Fp(7), Fp(5)), Vec(Fp(13), Fp(5)),
    Vec(FpSub(world_width, radius), FpSub(world_width, radius)) }

\* initial velocities: a sample of rand_vel x rand_vel, which draws from
\* [-max_speed, max_speed]
InitVel ==
  { Vec(0, 0), Vec(-max_speed, max_speed \div 2), Vec(max_speed, -max_speed) }

\* the clock readings a frame can see: the time since the previous frame
Deltas == { 0, update_step \div 2, 2 * update_step + 1 }

MaxTime == MaxTicks * update_step

Init ==
  /\ position \in [Bodies -> InitPos]
  /\ velocity \in [Bodies -> InitVel]
  /\ last_time = 0
  /\ this_time = 0
  /\ lag = 0
  /\ pc = "frame"
  /\ i = 0
  /\ j = 0
  /\ cancelled = FALSE
  /\ render_lag = 0
  /\ drawn = << >>
  /\ sum_deltas = 0
  /\ ticks_started = 0
  /\ ticks_run = 0
  /\ tested = << >>
  /\ resolved = << >>
  /\ last_integ = << >>
  /\ last_resolve = << >>

\* -------------------------------------------------------------- main loop
\* lines 158-160: read the clock, add the elapsed time to lag
FrameStart ==
  /\ pc = "frame"
  /\ \E delta \in Deltas :
       /\ this_time + delta <= MaxTime
       /\ this_time' = this_time + delta
       /\ lag' = lag + (this_time' - last_time)
       /\ sum_deltas' = sum_deltas + (this_time' - last_time)
  /\ pc' = "drain"
  /\ last_integ' = << >>
  /\ last_resolve' = << >>
  /\ UNCHANGED <<bodyVars, last_time, i, j, cancelled, render_lag, drawn,
                 ticks_started, ticks_run, tested, resolved>>

\* mutant of DrainCond: > for >=
DrainCondStrict(l) == l > update_step

\* line 162: the condition of the drain loop
DrainCond(l) == l >= update_step

\* mutant of DrainStep: lag is reset, not reduced
DrainStepReset(l) == 0

\* line 162: the loop's step expression
DrainStep(l) == l - update_step

\* line 162, condition true: update() is called
DrainEnter ==
  /\ pc = "drain"
  /\ DrainCond(lag)
  /\ pc' = "integrate"
  /\ i' = 0
  /\ ticks_started' = ticks_started + 1
  /\ tested' = << >>
  /\ resolved' = << >>
  /\ last_integ' = << >>
  /\ last_resolve' = << >>
  /\ UNCHANGED <<bodyVars, timeVars, j, cancelled, render_lag, drawn,
                 sum_deltas, ticks_run>>

\* line 162, condition false: the loop is left
DrainExit ==
  /\ pc = "drain"
  /\ ~DrainCond(lag)
  /\ pc' = "events"
  /\ last_integ' = << >>
  /\ last_resolve' = << >>
  /\ UNCHANGED <<bodyVars, timeVars, i, j, cancelled, render_lag, drawn,
                 sum_deltas, ticks_started, ticks_run, tested, resolved>>

\* ---------------------------------------------------------------- update()
\* line 78
StepPos(p, v) == VAdd(p, VScale(v, update_step_count))

\* mutant of ReflectX: the x-test negates the other component
ReflectXWrongAxis(p, v) ==
  IF p.re <= radius \/ p.re >= FpSub(world_width, radius)
  THEN VScale(Vec(v.re, -v.im), damp)
  ELSE v

\* lines 79-81
ReflectX(p, v) ==
  IF p.re <= radius \/ p.re >= FpSub(world_width, radius)
  THEN VScale(Vec(-v.re, v.im), damp)
  ELSE v

\* lines 82-84
ReflectY(p, v) ==
  IF p.im <= radius \/ p.im >= FpSub(world_height, radius)
  THEN VScale(Vec(v.re, -v.im), damp)
  ELSE v

\* lines 78-85, the body of the first loop: the new [pos, vel] of one body
Integrate(p, v) ==
  LET p1 == StepPos(p, v)
  IN [pos |-> in_bounds(p1), vel |-> ReflectY(p1, ReflectX(p1, v))]

\* lines 77-86: one iteration of the first loop
IntegrateBody ==
  /\ pc = "integrate"
  /\ i < NumBodies
  /\ LET r == Integrate(position[i], velocity[i])
     IN /\ position' = [position EXCEPT ![i] = r.pos]
        /\ velocity' = [velocity EXCEPT ![i] = r.vel]
  /\ last_integ' = << [body |-> i, pos |-> position[i], vel |-> velocity[i]] >>
  /\ last_resolve' = << >>
  /\ i' = i + 1
  /\ UNCHANGED <<timeVars, pc, j, cancelled, render_lag, drawn, sum_deltas,
                 ticks_started, ticks_run, tested, resolved>>

\* line 77 condition false, line 88 init: the first loop ends, the second begins
IntegrateDone ==
  /\ pc = "integrate"
  /\ ~(i < NumBodies)
  /\ pc' = "collide"
  /\ i' = 0
  /\ j' = 0
  /\ last_integ' = << >>
  /\ last_resolve' = << >>
  /\ UNCHANGED <<bodyVars, timeVars, cancelled, render_lag, drawn, sum_deltas,
                 ticks_started, ticks_run, tested, resolved>>

\* lines 51-74: the store after collide_update(i1, i2)
collide_update(pos, vel, i1, i2) ==
  LET v1 == vel[i1]
      v2 == vel[i2]
      p1 == pos[i1]
      p2 == pos[i2]
  IN [pos |-> [pos EXCEPT ![i1] = collide_pos(p1, p2),
                          ![i2] = collide_pos(p2, p1)],
      vel |-> [vel EXCEPT ![i1] = collide_vel(v1, v2, p1, p2),
                          ![i2] = collide_vel(v2, v1, p1, p2)]]

\* lines 88-89: the first j of the inner loop
FirstJ(a) == 0

\* lines 89-94: one iteration of the inner loop
CollidePair ==
  /\ pc = "collide"
  /\ i < NumBodies
  /\ j < NumBodies
  /\ IF i = j
     THEN /\ UNCHANGED <<bodyVars, tested, resolved>>
          /\ last_resolve' = << >>
     ELSE /\ tested' = Append(tested, <<i, j>>)
          /\ IF is_collide(position, i, j)
             THEN LET r == collide_update(position, velocity, i, j)
                  IN /\ position' = r.pos
                     /\ velocity' = r.vel
                     /\ resolved' = Append(resolved, <<i, j>>)
                     /\ last_resolve' =
                          << [i1 |-> i, i2 |-> j,
                              p1 |-> position[i], p2 |-> position[j],
                              v1 |-> velocity[i], v2 |-> velocity[j]] >>
             ELSE /\ UNCHANGED <<bodyVars, resolved>>
                  /\ last_resolve' = << >>
  /\ j' = j + 1
  /\ last_integ' = << >>
  /\ UNCHANGED <<timeVars, pc, i, cancelled, render_lag, drawn, sum_deltas,
                 ticks_started, ticks_run>>

\* line 89 condition false: the inner loop ends, ++i
CollideNextI ==
  /\ pc = "collide"
  /\ i < NumBodies
  /\ ~(j < NumBodies)
  /\ i' = i + 1
  /\ j' = FirstJ(i + 1)
  /\ last_integ' = << >>
  /\ last_resolve' = << >>
  /\ UNCHANGED <<bodyVars, timeVars, pc, cancelled, render_lag, drawn,
                 sum_deltas, ticks_started, ticks_run, tested, resolved>>

\* line 88 condition false: update() returns; line 162: lag -= update_step
UpdateReturn ==
  /\ pc = "collide"
  /\ ~(i < NumBodies)
  /\ lag' = DrainStep(lag)
  /\ ticks_run' = ticks_run + 1
  /\ pc' = "drain"
  /\ last_integ' = << >>
  /\ last_resolve' = << >>
  /\ UNCHANGED <<bodyVars, last_time, this_time, i, j, cancelled, render_lag,
                 drawn, sum_deltas, ticks_started, tested, resolved>>

\* ------------------------------------------------------- events and render
\* lines 165-171: every pending event is taken; SDL_QUIT cancels the main loop
Events ==
  /\ pc = "events"
  /\ \E quit \in BOOLEAN : cancelled' = (cancelled \/ quit)
  /\ pc' = "render"
  /\ last_integ' = << >>
  /\ last_resolve' = << >>
  /\ UNCHANGED <<bodyVars, timeVars, i, j, render_lag, drawn, sum_deltas,
                 ticks_started, ticks_run, tested, resolved>>

\* line 174: duration_cast<milliseconds> truncates toward zero
duration_cast_ms(l) == Sgn(l) * (Abs(l) \div ClockPerMs)

\* lines 99-104 and 110: the corner of the rectangle drawn for body k
particle_at(k, lagms) ==
  LET pos == VAdd(position[k], VScale(velocity[k], Fp(lagms)))
  IN <<FpToInt(FpSub(pos.re, radius)), FpToInt(FpSub(pos.im, radius))>>

\* emscripten_glue::main_loop: the callback runs again unless cancelled
MainLoopNext(c) == IF c THEN "stopped" ELSE "frame"

\* lines 173-176: render(renderer, lag in ms); last_time = this_time
Render ==
  /\ pc = "render"
  /\ render_lag' = duration_cast_ms(lag)
  /\ drawn' = [k \in Bodies |-> particle_at(k, duration_cast_ms(lag))]
  /\ last_time' = this_time
  /\ pc' = MainLoopNext(cancelled)
  /\ last_integ' = << >>
  /\ last_resolve' = << >>
  /\ UNCHANGED <<bodyVars, this_time, lag, i, j, cancelled, sum_deltas,
                 ticks_started, ticks_run, tested, resolved>>

\* collide_update as a function of the store: one call on any two distinct
\* bodies of any initial store, whether or not they are within range
CallCollideUpdate ==
  /\ pc = "call"
  /\ \E a \in Bodies : \E b \in Bodies \ {a} :
       LET r == collide_update(position, velocity, a, b)
       IN /\ position' = r.pos
          /\ velocity' = r.vel
          /\ resolved' = Append(resolved, <<a, b>>)
          /\ last_resolve' =
               << [i1 |-> a, i2 |-> b,
                   p1 |-> position[a], p2 |-> position[b],
                   v1 |-> velocity[a], v2 |-> velocity[b]] >>
  /\ pc' = "returned"
  /\ UNCHANGED <<timeVars, i, j, cancelled, render_lag, drawn, sum_deltas,
                 ticks_started, ticks_run, tested, last_integ>>

InitCall ==
  /\ position \in [Bodies -> InitPos]
  /\ velocity \in [Bodies -> InitVel]
  /\ last_time = 0
  /\ this_time = 0
  /\ lag = 0
  /\ pc = "call"
  /\ i = 0
  /\ j = 0
  /\ cancelled = FALSE
  /\ render_lag = 0
  /\ drawn = << >>
  /\ sum_deltas = 0
  /\ ticks_started = 0
  /\ ticks_run = 0
  /\ tested = << >>
  /\ resolved = << >>
  /\ last_integ = << >>
  /\ last_resolve = << >>

NextCall == CallCollideUpdate

SpecCall == InitCall /\ [][NextCall]_vars

Next ==
  \/ FrameStart
  \/ DrainEnter
  \/ DrainExit
  \/ IntegrateBody
  \/ IntegrateDone
  \/ CollidePair
  \/ CollideNextI
  \/ UpdateReturn
  \/ Events
  \/ Render

Spec == Init /\ [][Next]_vars

\* ================================================================= claims
InArena(p) ==
  /\ radius <= p.re
  /\ p.re <= FpSub(world_width, radius)
  /\ radius <= p.im
  /\ p.im <= FpSub(world_height, radius)

\* the drain loop of the current frame has finished and the next frame has
\* not yet read the clock
Drained == pc \in {"events", "render", "frame", "stopped"}

\* C1: whenever a frame's drain loop has finished, the sum of all frame
\* deltas equals ticks_run * update_step + lag, with 0 <= lag < update_step,
\* so ticks_run is the integer quotient of the sum by update_step.
AccumulatorAccounting ==
  Drained =>
    /\ sum_deltas = ticks_run * update_step + lag
    /\ 0 <= lag
    /\ lag < update_step
    /\ ticks_run = sum_deltas \div update_step

\* C1 witness: three frames of update_step / 2 each have fired exactly one
\* update() and left lag = update_step / 2.
AccumulatorThreeHalves ==
  /\ pc = "events"
  /\ sum_deltas = 3 * (update_step \div 2)
  /\ this_time - last_time = update_step \div 2
  /\ ticks_run = 1
  /\ lag = update_step \div 2

\* C2: in every tick, each body the first loop of update() has processed is
\* inside the arena, whatever its position was before.
BoundsAfterIntegrator ==
  /\ pc = "integrate" => \A k \in Bodies : k < i => InArena(position[k])
  /\ (pc = "collide" /\ tested = << >>) =>
       \A k \in Bodies : InArena(position[k])

\* C2 witness: the first loop has just processed a body that the previous
\* tick's collision resolution had left outside the arena.
IntegratedFromOutside ==
  /\ pc = "integrate"
  /\ last_integ # << >>
  /\ ticks_run >= 1
  /\ ~InArena(last_integ[1].pos)
  /\ InArena(position[last_integ[1].body])

\* C6: a body moving left whose stepped x is <= radius leaves the first loop
\* with velocity.x negated (same magnitude, now positive), position.x equal
\* to radius, and velocity.y as the y-test alone decides it.
WallReflection ==
  last_integ # << >> =>
    LET b == last_integ[1]
        sx == b.pos.re + update_step_ms * b.vel.re
        sy == b.pos.im + update_step_ms * b.vel.im
        yhit == sy <= radius \/ sy >= world_height - radius
    IN (b.vel.re < 0 /\ sx <= radius) =>
         /\ velocity[b.body].re > 0
         /\ velocity[b.body].re = -b.vel.re
         /\ velocity[b.body].im = (IF yhit THEN -b.vel.im ELSE b.vel.im)
         /\ position[b.body].re = radius

\* C6 witness: a body that started left of the lower bound and moving left
\* has been reflected, without the y-test firing.
ReflectedAtLeftWall ==
  /\ last_integ # << >>
  /\ last_integ[1].vel.re < 0
  /\ last_integ[1].pos.re < radius
  /\ last_integ[1].vel.im # 0
  /\ velocity[last_integ[1].body].im = last_integ[1].vel.im
  /\ velocity[last_integ[1].body].re > 0
  /\ position[last_integ[1].body].re = radius

\* C5: render() is called only when every due tick has run: no update() is
\* in progress, the store is the result of ticks_run whole ticks, nothing is
\* left to drain, and the lag handed to render() is in [0, update_step).
RenderAfterDrain ==
  /\ pc = "render" =>
       /\ ticks_started = ticks_run
       /\ ticks_run * update_step <= sum_deltas
       /\ sum_deltas < (ticks_run + 1) * update_step
       /\ 0 <= duration_cast_ms(lag)
       /\ duration_cast_ms(lag) < update_step_ms
  /\ 0 <= render_lag
  /\ render_lag < update_step_ms

\* C5 witness: a stalled frame ran several ticks before its render() call.
RenderAfterStalledFrame ==
  /\ pc = "render"
  /\ this_time - last_time > 2 * update_step
  /\ ticks_run >= 2
  /\ lag > 0

\* C7: collide_update on two bodies at rest leaves both at rest.
RestStaysRest ==
  last_resolve # << >> =>
    LET r == last_resolve[1]
    IN (r.v1 = Vec(0, 0) /\ r.v2 = Vec(0, 0)) =>
         /\ velocity[r.i1] = Vec(0, 0)
         /\ velocity[r.i2] = Vec(0, 0)

\* C7 witness: collide_update has just moved two bodies at rest that were
\* out of is_collide's range.
RestPairResolvedApart ==
  /\ last_resolve # << >>
  /\ last_resolve[1].v1 = Vec(0, 0)
  /\ last_resolve[1].v2 = Vec(0, 0)
  /\ ~CollideTest(VSub(last_resolve[1].p1, last_resolve[1].p2))
  /\ position[last_resolve[1].i1] # last_resolve[1].p1

\* C3 as claimed: right after collide_update(i, j) the two bodies are at
\* least col_rad apart (squared distance >= col_rad^2).
SeparationAfterResolve ==
  last_resolve # << >> =>
    norm(VSub(position[last_resolve[1].i1], position[last_resolve[1].i2]))
      >= FpMul(col_rad, col_rad)

\* number of entries of sequence s that are the pair (a, b) in either order
Visits(s, a, b) ==
  Cardinality({k \in DOMAIN s : s[k] = <<a, b>> \/ s[k] = <<b, a>>})

\* C4 as claimed: within one update() each unordered pair is tested at most
\* once (exactly once when the pass is over), and so resolved at most once.
PairVisitedOncePerTick ==
  \A a \in Bodies : \A b \in Bodies : a < b =>
    /\ Visits(tested, a, b) <= 1
    /\ Visits(resolved, a, b) <= 1
    /\ (pc = "collide" /\ ~(i < NumBodies)) => Visits(tested, a, b) = 1

\* C8 as claimed: is_collide(i, j) iff the squared distance is <= col_rad^2.
DetectWithinColRad ==
  \A a \in Bodies : \A b \in Bodies : a # b =>
    (is_collide(position, a, b)
       <=> norm(VSub(position[a], position[b])) <= FpMul(col_rad, col_rad))

\* largest r in lo .. hi with r * r <= n
RECURSIVE ISqrtIn(_, _, _)
ISqrtIn(n, lo, hi) ==
  IF lo >= hi THEN lo
  ELSE LET mid == (lo + hi + 1) \div 2
       IN IF mid * mid <= n THEN ISqrtIn(n, mid, hi)
          ELSE ISqrtIn(n, lo, mid - 1)

\* the Euclidean length of d: the square root of norm(d), in fixed point
Length(d) == ISqrtIn(norm(d) * FpScale, 0, 46340)

\* the velocity C9 states for the first body: v1 - dot(v1 - v2, n) * d with
\* n = d / (||d|| + eps)
ClaimedVel(v1, v2, d) ==
  VSub(v1, VScale(d, dot(VSub(v1, v2), VDivS(d, FpAdd(Length(d), smooth)))))

\* C9 as claimed: collide_update(i, j) sets velocity[i] to
\* v1 - dot(v1 - v2, n) * d and velocity[j] to v2 - dot(v2 - v1, -n) * (-d),
\* where n = d / (||d|| + eps) and ||d|| is the Euclidean length.
ResolveVelocityFormula ==
  last_resolve # << >> =>
    LET r == last_resolve[1]
        d == VSub(r.p1, r.p2)
    IN /\ velocity[r.i1] = ClaimedVel(r.v1, r.v2, d)
       /\ velocity[r.i2] = ClaimedVel(r.v2, r.v1, Vec(-d.re, -d.im))

\* C10 as claimed: whenever no update() is in progress (so at the end of
\* every tick and at every render() call) every body is inside the arena.
InArenaBetweenTicks ==
  (pc \in {"drain", "events", "render", "frame", "stopped"}) =>
    \A k \in Bodies : InArena(position[k])

====
